---------------------------- MODULE Spec2Model ----------------------------
(***************************************************************************)
(* A model of jayi/listenerutil: the field-name configuration, the hook    *)
(* registry and ExtendHandler / WrapResponse (src/gzip.go, package         *)
(* listenerutil), GZipHandler (src/gzip.go) and ParseBodyParam             *)
(* (src/param.go).                                                         *)
(*                                                                         *)
(* handlerManager takes no lock: its setters and its hook registration are *)
(* modelled as the separate reads and writes they are, so that calls from  *)
(* different goroutines interleave.                                        *)
(***************************************************************************)
EXTENDS Integers, Sequences, FiniteSets, TLC

VARIABLES
    dataFieldName,      \* handlerMgr.dataFieldName
    codeFieldName,      \* handlerMgr.codeFieldName
    msgFieldName,       \* handlerMgr.msgFieldName
    allowCrossOrigin,   \* handlerMgr.allowCrossOrigin
    setter,             \* per goroutine: the Set*FieldName call it is in
    beginHooks,         \* handlerMgr.beginHooks
    endHooks,           \* handlerMgr.endHooks
    adder,              \* per goroutine: the Add*Hook call it is in
    regLog,             \* history: the registrations that have returned, in order
    req,                \* per request: the state of ExtendHandler's closure
    gz,                 \* one request through GZipHandler
    pb                  \* one call of ParseBodyParam

vars == <<dataFieldName, codeFieldName, msgFieldName, allowCrossOrigin, setter,
          beginHooks, endHooks, adder, regLog, req, gz, pb>>

cfgVars == <<dataFieldName, codeFieldName, msgFieldName>>

-----------------------------------------------------------------------------
(* Bounds *)

\* hooks registered over a run of the concurrency specification
MaxHooks == 2
\* hooks registered over a run of the one-request specification
EnvMaxHooks == 2
\* longest request body given to ParseBodyParam, in tokens
MaxBodyLen == 3
\* longest request body given to GZipHandler, in bytes
MaxGzLen == 4
\* largest byte value of the gzip model's alphabet
MaxByte == 2
\* chunks the inner handler writes through GZipHandler
MaxWrites == 2

-----------------------------------------------------------------------------
(* Program constants *)

defaultDataFieldName == "data"
defaultCodeFieldName == "errno"
defaultMsgFieldName == "errmsg"

StatusOK == 200
StatusBadRequest == 400
StatusInternalServerError == 500

MethodOptions == "OPTIONS"
defaultOriginValue == "*"
credentialsTrue == "true"

\* net/http's StatusText, for the codes the model uses
StatusText(code) ==
    CASE code = StatusOK -> "OK"
      [] code = StatusBadRequest -> "Bad Request"
      [] code = 404 -> "Not Found"
      [] code = StatusInternalServerError -> "Internal Server Error"
      [] OTHER -> ""

-----------------------------------------------------------------------------
(* Field names                                                             *)

\* the names the setters are called with
FieldNames == {"", "data", "errno", "errmsg", "x"}

\* the same names in byte order, the order encoding/json writes map keys in
SortedNames == <<"", "data", "errmsg", "errno", "x">>

Fields == {"data", "code", "msg"}

\* the goroutines that call the setters
Setters == {1, 2}

NoCall == [pc |-> "idle", field |-> "data", name |-> "", ret |-> "none"]

\* setDataFieldName comparing the name with the code field only
DataNameRejectedNoMsgCheck(name) ==
    \/ name = ""
    \/ name = codeFieldName

\* setDataFieldName's two early returns
DataNameRejected(name) ==
    \/ name = ""
    \/ name = codeFieldName \/ name = msgFieldName

\* setCodeFieldName's two early returns
CodeNameRejected(name) ==
    \/ name = ""
    \/ name = dataFieldName \/ name = msgFieldName

\* setMsgFieldName's two early returns
MsgNameRejected(name) ==
    \/ name = ""
    \/ name = dataFieldName \/ name = codeFieldName

NameRejected(field, name) ==
    CASE field = "data" -> DataNameRejected(name)
      [] field = "code" -> CodeNameRejected(name)
      [] field = "msg" -> MsgNameRejected(name)

\* Set<field>FieldName(name), up to its assignment: the two checks. A rejected
\* call returns the error here.
SetFieldNameCheck(g, field, name) ==
    /\ setter[g].pc = "idle"
    /\ IF NameRejected(field, name)
       THEN setter' = [setter EXCEPT ![g] =
                [pc |-> "idle", field |-> field, name |-> name, ret |-> "err"]]
       ELSE setter' = [setter EXCEPT ![g] =
                [pc |-> "assign", field |-> field, name |-> name, ret |-> "none"]]
    /\ UNCHANGED <<cfgVars, allowCrossOrigin, beginHooks, endHooks, adder, regLog,
                   req, gz, pb>>

\* Set<field>FieldName(name): the assignment and the nil return
SetFieldNameAssign(g) ==
    /\ setter[g].pc = "assign"
    /\ dataFieldName' = IF setter[g].field = "data" THEN setter[g].name ELSE dataFieldName
    /\ codeFieldName' = IF setter[g].field = "code" THEN setter[g].name ELSE codeFieldName
    /\ msgFieldName' = IF setter[g].field = "msg" THEN setter[g].name ELSE msgFieldName
    /\ setter' = [setter EXCEPT ![g].pc = "idle", ![g].ret = "nil"]
    /\ UNCHANGED <<allowCrossOrigin, beginHooks, endHooks, adder, regLog, req, gz, pb>>

-----------------------------------------------------------------------------
(* JSON: Go values, tokens, encoding/json's Marshal and Unmarshal           *)

\* A Go value: nil, an int, a string, a []byte, a map or struct (its members in
\* encoding order) or a channel, which encoding/json cannot encode.
Val(t, n, s, m, b) == [t |-> t, n |-> n, s |-> s, m |-> m, b |-> b]
VNil == Val("nil", 0, "", <<>>, <<>>)
VInt(n) == Val("int", n, "", <<>>, <<>>)
VStr(s) == Val("string", 0, s, <<>>, <<>>)
VMap(m) == Val("map", 0, "", m, <<>>)
VBytes(b) == Val("bytes", 0, "", <<>>, b)
VChan == Val("chan", 0, "", <<>>, <<>>)

\* A body is a sequence of tokens: JSON's punctuation, literals, or raw text.
Tok(k, n, s) == [k |-> k, n |-> n, s |-> s]
TLBrace == Tok("{", 0, "")
TRBrace == Tok("}", 0, "")
TColon == Tok(":", 0, "")
TComma == Tok(",", 0, "")
TNull == Tok("null", 0, "")
TNum(n) == Tok("num", n, "")
TStr(s) == Tok("str", 0, s)
TText(s) == Tok("text", 0, s)

UnsupportedType == "json: unsupported type: chan int"

RECURSIVE Marshal(_)
RECURSIVE MarshalMembers(_, _)

\* the members m[i..] of an object, comma separated
MarshalMembers(m, i) ==
    IF i > Len(m) THEN [ok |-> TRUE, out |-> <<>>]
    ELSE LET v == Marshal(m[i].val)
             rest == MarshalMembers(m, i + 1)
         IN IF ~v.ok \/ ~rest.ok THEN [ok |-> FALSE, out |-> <<>>]
            ELSE [ok |-> TRUE,
                  out |-> <<TStr(m[i].key), TColon>> \o v.out
                          \o (IF i < Len(m) THEN <<TComma>> ELSE <<>>) \o rest.out]

\* json.Marshal of a value
Marshal(v) ==
    CASE v.t = "nil" -> [ok |-> TRUE, out |-> <<TNull>>]
      [] v.t = "int" -> [ok |-> TRUE, out |-> <<TNum(v.n)>>]
      [] v.t = "string" -> [ok |-> TRUE, out |-> <<TStr(v.s)>>]
      [] v.t = "bytes" -> [ok |-> TRUE, out |-> <<TStr("base64")>>]
      [] v.t = "map" ->
            LET ms == MarshalMembers(v.m, 1)
            IN IF ms.ok THEN [ok |-> TRUE, out |-> <<TLBrace>> \o ms.out \o <<TRBrace>>]
               ELSE [ok |-> FALSE, out |-> <<>>]
      [] OTHER -> [ok |-> FALSE, out |-> <<>>]

\* a Go map[string]interface{}: a function from its keys
EmptyMap == [k \in {} |-> VNil]

MapSet(m, k, v) == [x \in (DOMAIN m) \cup {k} |-> IF x = k THEN v ELSE m[x]]

\* json.Marshal of a map[string]interface{}: the keys in sorted order
MarshalMap(f) ==
    LET keys == SelectSeq(SortedNames, LAMBDA n : n \in DOMAIN f)
    IN Marshal(VMap([i \in 1..Len(keys) |-> [key |-> keys[i], val |-> f[keys[i]]]]))

ParseFail == [ok |-> FALSE, val |-> VNil, next |-> 0]

RECURSIVE ParseValue(_, _)
RECURSIVE ParseMembers(_, _, _)

\* the members of an object from toks[i], after "{" or ","
ParseMembers(toks, i, acc) ==
    IF i + 1 > Len(toks) \/ toks[i].k # "str" \/ toks[i + 1].k # ":" THEN ParseFail
    ELSE LET v == ParseValue(toks, i + 2)
             acc2 == Append(acc, [key |-> toks[i].s, val |-> v.val])
         IN IF ~v.ok \/ v.next > Len(toks) THEN ParseFail
            ELSE IF toks[v.next].k = "}"
                 THEN [ok |-> TRUE, val |-> VMap(acc2), next |-> v.next + 1]
            ELSE IF toks[v.next].k = ","
                 THEN ParseMembers(toks, v.next + 1, acc2)
            ELSE ParseFail

\* one JSON value from toks[i]
ParseValue(toks, i) ==
    IF i > Len(toks) THEN ParseFail
    ELSE CASE toks[i].k = "null" -> [ok |-> TRUE, val |-> VNil, next |-> i + 1]
           [] toks[i].k = "num" -> [ok |-> TRUE, val |-> VInt(toks[i].n), next |-> i + 1]
           [] toks[i].k = "str" -> [ok |-> TRUE, val |-> VStr(toks[i].s), next |-> i + 1]
           [] toks[i].k = "{" ->
                IF i + 1 <= Len(toks) /\ toks[i + 1].k = "}"
                THEN [ok |-> TRUE, val |-> VMap(<<>>), next |-> i + 2]
                ELSE ParseMembers(toks, i + 1, <<>>)
           [] OTHER -> ParseFail

\* json.Unmarshal into an interface{}: the whole input is one value
Decode(toks) ==
    LET v == ParseValue(toks, 1)
    IN IF v.ok /\ v.next = Len(toks) + 1 THEN v ELSE ParseFail

\* a decoded object as a map; a repeated key keeps its last value
ObjToMap(v) ==
    LET keys == {v.m[i].key : i \in 1..Len(v.m)}
        last(k) == CHOOSE i \in 1..Len(v.m) :
                      /\ v.m[i].key = k
                      /\ \A j \in 1..Len(v.m) : v.m[j].key = k => j <= i
    IN [k \in keys |-> v.m[last(k)].val]

-----------------------------------------------------------------------------
(* http.ResponseWriter                                                      *)

HeaderNames == {"Content-Type", "Content-Length", "Access-Control-Allow-Origin",
                "Access-Control-Allow-Credentials", "Access-Control-Allow-Methods",
                "Access-Control-Allow-Headers"}

\* a header that is not set reads as ""
NoHeaders == [h \in HeaderNames |-> ""]

\* status 0: WriteHeader has not been called
NewWriter(isGzip) == [hdr |-> NoHeaders, status |-> 0, body |-> <<>>, isGzip |-> isGzip]

SetHeader(w, h, v) == [w EXCEPT !.hdr[h] = v]

\* the first WriteHeader decides the status
WriteHeader(w, code) == IF w.status = 0 THEN [w EXCEPT !.status = code] ELSE w

\* http.DetectContentType of JSON or of an error text
DetectContentType(b) == "text/plain; charset=utf-8"

\* w.Write(b): through gzipResponseWriter.Write when w wraps a compressor
WriteBody(w, b) ==
    LET w1 == IF w.isGzip /\ w.hdr["Content-Type"] = ""
              THEN SetHeader(w, "Content-Type", DetectContentType(b))
              ELSE w
        w2 == WriteHeader(w1, StatusOK)
    IN [w2 EXCEPT !.body = w2.body \o b]

-----------------------------------------------------------------------------
(* WrapResponse                                                             *)

NoErr == "<nil>"

\* the tail of WrapResponse: the headers, the status, the body
WriteEnvelope(w, data, status) ==
    LET w1 == SetHeader(w, "Content-Type", "application/json")
        w2 == IF ~w1.isGzip
              THEN SetHeader(w1, "Content-Length", ToString(Len(data)))
              ELSE w1
    IN WriteBody(WriteHeader(w2, status), data)

\* the handler's status, written as it is
NormalizedStatusKeep(status, err) == status

\* the status WrapResponse writes for a non-byte payload
NormalizedStatus(status, err) ==
    IF (err # NoErr \/ status # StatusOK) /\ status = StatusOK
    THEN StatusBadRequest
    ELSE status

\* the map WrapResponse builds for a non-byte payload
EnvelopeMap(response, status, err) ==
    IF err # NoErr \/ status # StatusOK
    THEN LET st == NormalizedStatus(status, err)
             msg == IF err = NoErr THEN StatusText(st) ELSE err
         IN MapSet(MapSet(EmptyMap, codeFieldName, VInt(st)), msgFieldName, VStr(msg))
    ELSE MapSet(MapSet(EmptyMap, dataFieldName, response), codeFieldName, VInt(0))

\* WrapResponse without the return that follows the 500
WrapResponseNoReturn(w, response, status, err) ==
    IF response.t = "bytes"
    THEN WriteEnvelope(w, response.b, status)
    ELSE LET enc == MarshalMap(EnvelopeMap(response, status, err))
             w1 == IF ~enc.ok
                   THEN WriteBody(WriteHeader(w, StatusInternalServerError),
                                  <<TText(UnsupportedType)>>)
                   ELSE w
         IN WriteEnvelope(w1, enc.out, NormalizedStatus(status, err))

WrapResponse(w, response, status, err) ==
    IF response.t = "bytes"
    THEN WriteEnvelope(w, response.b, status)
    ELSE LET enc == MarshalMap(EnvelopeMap(response, status, err))
         IN IF ~enc.ok
            THEN WriteBody(WriteHeader(w, StatusInternalServerError),
                           <<TText(UnsupportedType)>>)
            ELSE WriteEnvelope(w, enc.out, NormalizedStatus(status, err))

-----------------------------------------------------------------------------
(* The hook registry                                                        *)

\* kind: "begin" (AddBeginHook), "EndHookFunc" (AddEndHook, wrapped) or
\* "EndHandleFunc" (AddEndHandleFunc)
Hook(id, kind) == [id |-> id, kind |-> kind]

HookKinds == {"begin", "EndHookFunc", "EndHandleFunc"}

\* the goroutines that register hooks
Adders == {1, 2}

NoAdd == [pc |-> "idle", hook |-> Hook(0, "begin"), old |-> <<>>]

\* the list a hook of this kind is appended to
IsBeginKind(kind) == kind = "begin"

\* hooks handed to a registration so far: each hook is registered once
Issued == Len(regLog) + Cardinality({g \in DOMAIN adder : adder[g].pc = "append"})

RegisteredBegin == SelectSeq(regLog, LAMBDA h : IsBeginKind(h.kind))
RegisteredEnd == SelectSeq(regLog, LAMBDA h : ~IsBeginKind(h.kind))

\* addBeginHook / addEndHook / addEndHandleFunc: append's read of the slice
AddHookRead(g, kind, limit) ==
    /\ adder[g].pc = "idle"
    /\ Issued < limit
    /\ adder' = [adder EXCEPT ![g] =
            [pc |-> "append", hook |-> Hook(Issued + 1, kind),
             old |-> IF IsBeginKind(kind) THEN beginHooks ELSE endHooks]]
    /\ UNCHANGED <<cfgVars, allowCrossOrigin, setter, beginHooks, endHooks, regLog,
                   req, gz, pb>>

\* addBeginHook / addEndHook / addEndHandleFunc: the assignment of the
\* appended slice, and the return
AddHookWrite(g) ==
    /\ adder[g].pc = "append"
    /\ IF IsBeginKind(adder[g].hook.kind)
       THEN /\ beginHooks' = Append(adder[g].old, adder[g].hook)
            /\ UNCHANGED endHooks
       ELSE /\ endHooks' = Append(adder[g].old, adder[g].hook)
            /\ UNCHANGED beginHooks
    /\ regLog' = Append(regLog, adder[g].hook)
    /\ adder' = [adder EXCEPT ![g] = NoAdd]
    /\ UNCHANGED <<cfgVars, allowCrossOrigin, setter, req, gz, pb>>

SetAllowCrossOrigin(allow) ==
    /\ allowCrossOrigin # allow
    /\ allowCrossOrigin' = allow
    /\ UNCHANGED <<cfgVars, setter, beginHooks, endHooks, adder, regLog, req, gz, pb>>

-----------------------------------------------------------------------------
(* ExtendHandler                                                            *)

\* the Access-Control-Request-* headers of a request
RequestMethodHeader == "PUT"
RequestHeadersHeader == "X-Token"

Methods == {"GET", MethodOptions}
Origins == {"", " ", "http://a"}

\* strings.TrimSpace on the origins of the model
TrimSpace(s) == IF s = " " THEN "" ELSE s

\* the handler's return values and the HandleResult built from them
Result(data, status, err) == [Data |-> data, StatusCode |-> status, Err |-> err]

NoResult == Result(VNil, 0, NoErr)

\* the requests in flight, one goroutine each
Requests == {1, 2}

\* ret is what the handler returned and result the HandleResult that
\* handleResult points to, one for the whole request.
\* regBegin, regEnd, listBegin, listEnd, firedBegin, firedEnd, handlerCalled
\* and wrapCalled are history: what was registered when the request started,
\* the lists as the two loops found them, and what has been called since.
NoReq == [pc |-> "idle", method |-> "GET", origin |-> "",
          w |-> NewWriter(FALSE), snap |-> <<>>, idx |-> 1,
          regBegin |-> <<>>, regEnd |-> <<>>,
          listBegin |-> <<>>, listEnd |-> <<>>,
          firedBegin |-> <<>>, firedEnd |-> <<>>,
          handlerCalled |-> FALSE, wrapCalled |-> FALSE,
          ret |-> NoResult, result |-> NoResult]

doAccessOrigin(w, method, origin) ==
    LET o == IF Len(TrimSpace(origin)) <= 0 THEN defaultOriginValue ELSE origin
        w1 == SetHeader(w, "Access-Control-Allow-Origin", o)
        w2 == SetHeader(w1, "Access-Control-Allow-Credentials", credentialsTrue)
    IN IF method = MethodOptions
       THEN SetHeader(SetHeader(w2, "Access-Control-Allow-Methods", RequestMethodHeader),
                      "Access-Control-Allow-Headers", RequestHeadersHeader)
       ELSE w2

\* a range loop that misses the last element
RangeOverButLast(hooks) == SubSeq(hooks, 1, Len(hooks) - 1)

\* the slice a range loop walks: the range expression is evaluated once
RangeOver(hooks) == hooks

\* ExtendHandler's closure is entered: doBeginHooks evaluates its range
StartRequest(r, method, origin, isGzip) ==
    /\ req[r].pc = "idle"
    /\ req' = [req EXCEPT ![r] =
            [NoReq EXCEPT !.pc = "begin", !.method = method, !.origin = origin,
                          !.w = NewWriter(isGzip),
                          !.snap = RangeOver(beginHooks), !.idx = 1,
                          !.listBegin = beginHooks,
                          !.regBegin = RegisteredBegin, !.regEnd = RegisteredEnd]]
    /\ UNCHANGED <<cfgVars, allowCrossOrigin, setter, beginHooks, endHooks, adder,
                   regLog, gz, pb>>

\* doBeginHooks: one call of a hook
BeginHook(r) ==
    /\ req[r].pc = "begin"
    /\ req[r].idx <= Len(req[r].snap)
    /\ req' = [req EXCEPT ![r].firedBegin = Append(@, req[r].snap[req[r].idx].id),
                          ![r].idx = @ + 1]
    /\ UNCHANGED <<cfgVars, allowCrossOrigin, setter, beginHooks, endHooks, adder,
                   regLog, gz, pb>>

\* no request is answered without the handler
ShortCircuitNever(method) == FALSE

\* the request is answered without the handler
ShortCircuit(method) == method = MethodOptions

\* after doBeginHooks: doAccessOrigin and the OPTIONS short circuit
AfterBeginHooks(r) ==
    /\ req[r].pc = "begin"
    /\ req[r].idx > Len(req[r].snap)
    /\ LET w1 == IF allowCrossOrigin
                 THEN doAccessOrigin(req[r].w, req[r].method, req[r].origin)
                 ELSE req[r].w
       IN IF ShortCircuit(req[r].method)
          THEN req' = [req EXCEPT ![r].w = WriteHeader(w1, StatusOK), ![r].pc = "done"]
          ELSE req' = [req EXCEPT ![r].w = w1, ![r].pc = "handler"]
    /\ UNCHANGED <<cfgVars, allowCrossOrigin, setter, beginHooks, endHooks, adder,
                   regLog, gz, pb>>

\* a HandleResult holding the status WrapResponse wrote and the error it
\* put in the envelope
handleResultNormalized(data, status, err) ==
    IF data.t = "bytes"
    THEN Result(data, status, err)
    ELSE Result(data, NormalizedStatus(status, err),
                IF status # StatusOK /\ err = NoErr THEN StatusText(status) ELSE err)

\* the HandleResult ExtendHandler builds after WrapResponse has returned:
\* WrapResponse got status and err by value, its assignments to them are to
\* its own copies
handleResult(data, status, err) == Result(data, status, err)

\* the handler returns (data, status, err); WrapResponse; the HandleResult;
\* doEndHooks evaluates its range
Handle(r, data, status, err) ==
    /\ req[r].pc = "handler"
    /\ req' = [req EXCEPT ![r].handlerCalled = TRUE,
                          ![r].wrapCalled = TRUE,
                          ![r].w = WrapResponse(req[r].w, data, status, err),
                          ![r].ret = Result(data, status, err),
                          ![r].result = handleResult(data, status, err),
                          ![r].snap = RangeOver(endHooks),
                          ![r].listEnd = endHooks,
                          ![r].idx = 1,
                          ![r].pc = "end"]
    /\ UNCHANGED <<cfgVars, allowCrossOrigin, setter, beginHooks, endHooks, adder,
                   regLog, gz, pb>>

\* what a post-hook is called with: an EndHandleFunc gets the HandleResult, an
\* EndHookFunc its Data, StatusCode and Err
HookArgs(hook, result) ==
    [hook |-> hook.id, kind |-> hook.kind,
     Data |-> result.Data, StatusCode |-> result.StatusCode, Err |-> result.Err]

\* doEndHooks: one call of a hook
EndHook(r) ==
    /\ req[r].pc = "end"
    /\ req[r].idx <= Len(req[r].snap)
    /\ req' = [req EXCEPT
            ![r].firedEnd = Append(@, HookArgs(req[r].snap[req[r].idx], req[r].result)),
            ![r].idx = @ + 1]
    /\ UNCHANGED <<cfgVars, allowCrossOrigin, setter, beginHooks, endHooks, adder,
                   regLog, gz, pb>>

\* doEndHooks and the closure return
Finish(r) ==
    /\ req[r].pc = "end"
    /\ req[r].idx > Len(req[r].snap)
    /\ req' = [req EXCEPT ![r].pc = "done"]
    /\ UNCHANGED <<cfgVars, allowCrossOrigin, setter, beginHooks, endHooks, adder,
                   regLog, gz, pb>>

-----------------------------------------------------------------------------
(* Request bodies: io.Reader over a byte sequence                           *)

\* r.Body: the bytes, how many have been read, and whether reading past them
\* fails instead of ending
Stream(data, fails) == [data |-> data, pos |-> 0, fails |-> fails]

\* ioutil.NopCloser(bytes.NewBuffer(data))
NewBuffer(data) == Stream(data, FALSE)

\* ioutil.ReadAll: what is left of the stream, and the error
ReadAll(body) ==
    [data |-> SubSeq(body.data, body.pos + 1, Len(body.data)), err |-> body.fails]

\* the stream after ioutil.ReadAll
Drained(body) == [body EXCEPT !.pos = Len(body.data)]

-----------------------------------------------------------------------------
(* compress/gzip, as a stored block: magic, length, the bytes, checksum     *)

Byte == 0..MaxByte

\* the header byte every member starts with
Magic == MaxByte

Sum(q) == LET RECURSIVE S(_)
              S(i) == IF i > Len(q) THEN 0 ELSE q[i] + S(i + 1)
          IN S(1)

Crc(plain) == Sum(plain) % (MaxByte + 1)

\* what a gzip.Writer has written once it is closed
Compress(plain) == <<Magic, Len(plain)>> \o plain \o <<Crc(plain)>>

\* gzip.NewReader: reads the header
NewReader(data) == [ok |-> Len(data) > 0 /\ data[1] = Magic, data |-> data]

RECURSIVE ReadMembers(_, _, _)
\* the members of a gzip stream from the length field at data[i]
ReadMembers(data, i, acc) ==
    IF i > Len(data) THEN [ok |-> FALSE, data |-> acc]
    ELSE LET n == data[i]
             plain == SubSeq(data, i + 1, i + n)
             next == i + n + 2
         IN IF i + n + 1 > Len(data) THEN [ok |-> FALSE, data |-> acc]
            ELSE IF data[i + n + 1] # Crc(plain) THEN [ok |-> FALSE, data |-> acc \o plain]
            ELSE IF next > Len(data) THEN [ok |-> TRUE, data |-> acc \o plain]
            ELSE IF data[next] # Magic THEN [ok |-> FALSE, data |-> acc \o plain]
            ELSE ReadMembers(data, next + 1, acc \o plain)

\* ioutil.ReadAll of a gzip.Reader over data
ReadAllGzip(data) == ReadMembers(data, 2, <<>>)

-----------------------------------------------------------------------------
(* GZipHandler                                                              *)

\* header values of the model and strings.Contains(value, "gzip")
EncodingValues == {"", "gzip", "deflate, gzip"}

ContainsGzip(value) == value \in {"gzip", "deflate, gzip"}

\* observed, written and returned are history: what the inner handler read,
\* what it wrote, and that it has returned
NoGz == [pc |-> "off", contentEncoding |-> "", acceptEncoding |-> "",
         raw |-> <<>>, bodyFails |-> FALSE, body |-> NewBuffer(<<>>),
         gzipWriter |-> FALSE, respContentEncoding |-> "", respContentType |-> "",
         compressor |-> "none", buffered |-> <<>>, wire |-> <<>>,
         hasRead |-> FALSE, observed |-> <<>>, observedErr |-> FALSE,
         nWrites |-> 0, written |-> <<>>]

NewGz(ce, ae, raw, fails) ==
    [NoGz EXCEPT !.pc = "start", !.contentEncoding = ce, !.acceptEncoding = ae,
                 !.raw = raw, !.bodyFails = fails, !.body = Stream(raw, fails)]

\* r.Body when the gzip stream cannot be read: the error is printed and
\* r.Body stays the reader that ioutil.ReadAll has read to its end
BodyAfterReadFailure(body, data) == Drained(body)

\* the request body after the Content-Encoding block
DecodedBody(g) ==
    IF ~ContainsGzip(g.contentEncoding) THEN g.body
    ELSE LET in == ReadAll(g.body)
         IN IF in.err THEN Drained(g.body)
            ELSE IF ~NewReader(in.data).ok THEN NewBuffer(in.data)
            ELSE LET out == ReadAllGzip(in.data)
                 IN IF out.ok THEN NewBuffer(out.data)
                    ELSE BodyAfterReadFailure(g.body, in.data)

\* the compressor left open
CloseCompressorSkipped(g) == g

\* gz.Close(): the compressor writes what it holds to the response
CloseCompressor(g) ==
    IF g.compressor = "open"
    THEN [g EXCEPT !.compressor = "closed",
                   !.wire = g.wire \o Compress(g.buffered),
                   !.buffered = <<>>]
    ELSE g

\* GZipHandler up to its call of next: the request body, the negotiation
GZipEnter ==
    /\ gz.pc = "start"
    /\ LET g == [gz EXCEPT !.body = DecodedBody(gz), !.pc = "next"]
       IN IF ~ContainsGzip(gz.acceptEncoding)
          THEN gz' = g
          ELSE gz' = [g EXCEPT !.respContentEncoding = "gzip",
                               !.compressor = "open",
                               !.gzipWriter = TRUE]
    /\ UNCHANGED <<cfgVars, allowCrossOrigin, setter, beginHooks, endHooks, adder,
                   regLog, req, pb>>

\* the inner handler reads the request body to its end
NextReadsBody ==
    /\ gz.pc = "next"
    /\ ~gz.hasRead
    /\ gz' = [gz EXCEPT !.hasRead = TRUE,
                        !.observed = ReadAll(gz.body).data,
                        !.observedErr = ReadAll(gz.body).err,
                        !.body = Drained(gz.body)]
    /\ UNCHANGED <<cfgVars, allowCrossOrigin, setter, beginHooks, endHooks, adder,
                   regLog, req, pb>>

\* the inner handler writes b: gzipResponseWriter.Write, or the writer's own
NextWrites(b) ==
    /\ gz.pc = "next"
    /\ gz.nWrites < MaxWrites
    /\ IF gz.gzipWriter
       THEN gz' = [gz EXCEPT !.respContentType =
                                 IF @ = "" THEN DetectContentType(b) ELSE @,
                             !.buffered = @ \o b,
                             !.written = @ \o b,
                             !.nWrites = @ + 1]
       ELSE gz' = [gz EXCEPT !.wire = @ \o b,
                             !.written = @ \o b,
                             !.nWrites = @ + 1]
    /\ UNCHANGED <<cfgVars, allowCrossOrigin, setter, beginHooks, endHooks, adder,
                   regLog, req, pb>>

\* the inner handler returns or panics: the deferred gz.Close() runs
NextReturns ==
    /\ gz.pc = "next"
    /\ gz' = [CloseCompressor(gz) EXCEPT !.pc = "done"]
    /\ UNCHANGED <<cfgVars, allowCrossOrigin, setter, beginHooks, endHooks, adder,
                   regLog, req, pb>>

-----------------------------------------------------------------------------
(* ParseBodyParam                                                           *)

\* the tokens request bodies are made of
BodyTokens == {TLBrace, TRBrace, TColon, TNum(1), TStr("x")}

\* what param points to: an interface{} or a struct
Targets == {"any", "struct"}

\* json.Unmarshal(body, param): the value, or the error
Unmarshal(body, target) ==
    LET v == Decode(body)
    IN IF v.ok /\ (target = "any" \/ v.val.t \in {"map", "nil"})
       THEN [ok |-> TRUE, val |-> v.val]
       ELSE [ok |-> FALSE, val |-> VNil]

\* second and secondErr are history: what a read of r.Body after the call saw
NoPb == [pc |-> "off", body |-> NewBuffer(<<>>), target |-> "any",
         sent |-> <<>>, fails |-> FALSE,
         ret |-> "none", decoded |-> FALSE, param |-> VNil,
         second |-> <<>>, secondErr |-> FALSE]

\* a request whose body has been read up to pos already
NewPb(data, pos, fails, target) ==
    [NoPb EXCEPT !.pc = "call", !.body = [Stream(data, fails) EXCEPT !.pos = pos],
                 !.sent = SubSeq(data, pos + 1, Len(data)), !.fails = fails,
                 !.target = target]

\* r.Body left as ioutil.ReadAll leaves it
RestoredBodyNever(body, data) == Drained(body)

\* r.Body when ParseBodyParam has read it
RestoredBody(body, data) == NewBuffer(data)

ParseBodyParam ==
    /\ pb.pc = "call"
    /\ LET in == ReadAll(pb.body)
           out == Unmarshal(in.data, pb.target)
       IN IF in.err
          THEN pb' = [pb EXCEPT !.pc = "returned", !.ret = "read error",
                                !.body = Drained(pb.body)]
          ELSE pb' = [pb EXCEPT !.pc = "returned",
                                !.body = RestoredBody(pb.body, in.data),
                                !.decoded = TRUE,
                                !.ret = IF out.ok THEN "nil" ELSE "decode error",
                                !.param = out.val]
    /\ UNCHANGED <<cfgVars, allowCrossOrigin, setter, beginHooks, endHooks, adder,
                   regLog, req, gz>>

\* a later reader, a logging hook say, reads r.Body to its end
ReadBodyAgain ==
    /\ pb.pc = "returned"
    /\ pb' = [pb EXCEPT !.pc = "done",
                        !.second = ReadAll(pb.body).data,
                        !.secondErr = ReadAll(pb.body).err,
                        !.body = Drained(pb.body)]
    /\ UNCHANGED <<cfgVars, allowCrossOrigin, setter, beginHooks, endHooks, adder,
                   regLog, req, gz>>

-----------------------------------------------------------------------------
(* Inputs                                                                   *)

\* what a handler returns: nil, a []byte, values encoding/json encodes, and
\* values it does not
Payloads == {VNil, VBytes(<<TText("raw")>>),
             VMap(<<[key |-> "x", val |-> VInt(1)]>>),
             VChan, VMap(<<[key |-> "x", val |-> VChan]>>)}

Statuses == {StatusOK, StatusBadRequest, 404}

Errs == {NoErr, "bad"}

DefaultConfig == [f \in Fields |->
                    CASE f = "data" -> defaultDataFieldName
                      [] f = "code" -> defaultCodeFieldName
                      [] f = "msg" -> defaultMsgFieldName]

\* field names as one accepted call of a setter leaves them, and the defaults
Configs == {c \in [Fields -> FieldNames \ {""}] :
                /\ c["data"] # c["code"] /\ c["code"] # c["msg"] /\ c["data"] # c["msg"]
                /\ Cardinality({f \in Fields : c[f] # DefaultConfig[f]}) <= 1}

InitIdle ==
    /\ setter = [g \in Setters |-> NoCall]
    /\ beginHooks = <<>>
    /\ endHooks = <<>>
    /\ adder = [g \in Adders |-> NoAdd]
    /\ regLog = <<>>
    /\ req = [r \in Requests |-> NoReq]
    /\ gz = NoGz
    /\ pb = NoPb

InitDefaults ==
    /\ dataFieldName = defaultDataFieldName
    /\ codeFieldName = defaultCodeFieldName
    /\ msgFieldName = defaultMsgFieldName
    /\ allowCrossOrigin = TRUE

-----------------------------------------------------------------------------
(* SpecConfig: the field-name setters, called from concurrent goroutines     *)

InitConfig == InitDefaults /\ InitIdle

NextConfig ==
    \/ \E a \in BOOLEAN : SetAllowCrossOrigin(a)
    \/ \E g \in Setters, f \in Fields, n \in FieldNames : SetFieldNameCheck(g, f, n)
    \/ \E g \in Setters : SetFieldNameAssign(g)

SpecConfig == InitConfig /\ [][NextConfig]_vars

-----------------------------------------------------------------------------
(* Spec: one request through ExtendHandler, over every handler return and   *)
(* every field-name configuration, with hooks registered meanwhile          *)

Init ==
    /\ \E c \in Configs :
          /\ dataFieldName = c["data"]
          /\ codeFieldName = c["code"]
          /\ msgFieldName = c["msg"]
    /\ allowCrossOrigin \in BOOLEAN
    /\ InitIdle

Next ==
    \/ \E k \in HookKinds : AddHookRead(1, k, EnvMaxHooks)
    \/ AddHookWrite(1)
    \/ \E m \in Methods, o \in Origins, z \in BOOLEAN : StartRequest(1, m, o, z)
    \/ BeginHook(1)
    \/ AfterBeginHooks(1)
    \/ \E d \in Payloads, s \in Statuses, e \in Errs : Handle(1, d, s, e)
    \/ EndHook(1)
    \/ Finish(1)

Spec == Init /\ [][Next]_vars

-----------------------------------------------------------------------------
(* SpecConc: concurrent requests and concurrently registering goroutines    *)

ConcPayloads == {VMap(<<[key |-> "x", val |-> VInt(1)]>>)}

InitConc ==
    /\ dataFieldName = defaultDataFieldName
    /\ codeFieldName = defaultCodeFieldName
    /\ msgFieldName = defaultMsgFieldName
    /\ allowCrossOrigin \in BOOLEAN
    /\ InitIdle

NextConc ==
    \/ \E g \in Adders, k \in HookKinds : AddHookRead(g, k, MaxHooks)
    \/ \E g \in Adders : AddHookWrite(g)
    \/ \E r \in Requests, m \in Methods : StartRequest(r, m, "", FALSE)
    \/ \E r \in Requests : BeginHook(r)
    \/ \E r \in Requests : AfterBeginHooks(r)
    \/ \E r \in Requests, d \in ConcPayloads : Handle(r, d, StatusOK, NoErr)
    \/ \E r \in Requests : EndHook(r)
    \/ \E r \in Requests : Finish(r)

SpecConc == InitConc /\ [][NextConc]_vars

-----------------------------------------------------------------------------
(* SpecGzip: one request through GZipHandler, over every body of at most    *)
(* MaxGzLen bytes                                                           *)

RECURSIVE SeqsUpTo(_, _)
\* the sequences over S of length at most n
SeqsUpTo(S, n) ==
    IF n = 0 THEN {<<>>}
    ELSE LET shorter == SeqsUpTo(S, n - 1)
         IN shorter \cup {Append(q, x) : q \in shorter, x \in S}

\* what the inner handler writes at a time
Chunks == {<<0>>, <<1, MaxByte>>}

InitGzip ==
    /\ InitDefaults
    /\ setter = [g \in Setters |-> NoCall]
    /\ beginHooks = <<>>
    /\ endHooks = <<>>
    /\ adder = [g \in Adders |-> NoAdd]
    /\ regLog = <<>>
    /\ req = [r \in Requests |-> NoReq]
    /\ pb = NoPb
    /\ \E ce \in EncodingValues, ae \in EncodingValues,
          raw \in SeqsUpTo(Byte, MaxGzLen), fails \in BOOLEAN :
            gz = NewGz(ce, ae, raw, fails)

NextGzip ==
    \/ GZipEnter
    \/ NextReadsBody
    \/ \E b \in Chunks : NextWrites(b)
    \/ NextReturns

SpecGzip == InitGzip /\ [][NextGzip]_vars

-----------------------------------------------------------------------------
(* SpecParam: one call of ParseBodyParam, over every body of at most        *)
(* MaxBodyLen tokens                                                        *)

InitParam ==
    /\ InitDefaults
    /\ setter = [g \in Setters |-> NoCall]
    /\ beginHooks = <<>>
    /\ endHooks = <<>>
    /\ adder = [g \in Adders |-> NoAdd]
    /\ regLog = <<>>
    /\ req = [r \in Requests |-> NoReq]
    /\ gz = NoGz
    /\ \E data \in SeqsUpTo(BodyTokens, MaxBodyLen), fails \in BOOLEAN,
          target \in Targets :
            \E pos \in {0, 1} \cap (0..Len(data)) :
                pb = NewPb(data, pos, fails, target)

NextParam ==
    \/ ParseBodyParam
    \/ ReadBodyAgain

SpecParam == InitParam /\ [][NextParam]_vars

-----------------------------------------------------------------------------
(* Claims about the field names, under SpecConfig                           *)

FieldName(field) ==
    CASE field = "data" -> dataFieldName
      [] field = "code" -> codeFieldName
      [] field = "msg" -> msgFieldName

\* C2: a Set<field>FieldName call whose name is empty or is the current value
\* of one of the other two field names returns an error and leaves the three
\* names as they are; any other call returns nil and changes the field it
\* names and nothing else.
C2_SetterContract ==
    [][\A g \in Setters :
          /\ (setter[g].pc = "idle" /\ setter'[g] # setter[g]) =>
                LET c == setter'[g]
                    bad == \/ c.name = ""
                           \/ \E f \in Fields \ {c.field} : c.name = FieldName(f)
                IN /\ bad <=> c.ret = "err"
                   /\ bad => c.pc = "idle"
                   /\ ~bad => c.pc = "assign" /\ c.ret = "none"
                   /\ cfgVars' = cfgVars
          /\ (setter[g].pc = "assign" /\ setter'[g] # setter[g]) =>
                /\ setter'[g].ret = "nil" /\ setter'[g].pc = "idle"
                /\ \A f \in Fields :
                      FieldName(f)' = IF f = setter[g].field THEN setter[g].name
                                      ELSE FieldName(f)
    ]_vars

\* a rejected call (a collision with the code field) and an accepted one have
\* both returned, and the accepted name is in place
C2_Witness ==
    /\ setter[1].pc = "idle" /\ setter[1].ret = "err"
    /\ setter[1].field = "data" /\ setter[1].name = codeFieldName
    /\ setter[2].pc = "idle" /\ setter[2].ret = "nil"
    /\ setter[2].field = "msg" /\ setter[2].name = "x" /\ msgFieldName = "x"
    /\ dataFieldName = defaultDataFieldName

\* C3: the data, code and message field names are pairwise distinct in every
\* reachable state, whatever calls of the setters interleave.
C3_PairwiseDistinct ==
    /\ dataFieldName # codeFieldName
    /\ codeFieldName # msgFieldName
    /\ dataFieldName # msgFieldName

-----------------------------------------------------------------------------
(* Claims about WrapResponse and ExtendHandler, under Spec                  *)

Ids(hooks) == [i \in 1..Len(hooks) |-> hooks[i].id]

FiredEndIds(r) == [i \in 1..Len(req[r].firedEnd) |-> req[r].firedEnd[i].hook]

SeqRange(q) == {q[i] : i \in 1..Len(q)}

Wrapped(r) == req[r].wrapCalled /\ req[r].pc \in {"end", "done"}

RECURSIVE Encodable(_)
\* encoding/json encodes the value: there is no channel in it
Encodable(v) ==
    /\ v.t # "chan"
    /\ \A i \in 1..Len(v.m) : Encodable(v.m[i].val)

\* the body is the JSON text of exactly this map
BodyIsMap(body, map) ==
    LET v == Decode(body)
    IN v.ok /\ v.val.t = "map" /\ ObjToMap(v.val) = map

\* the reference envelope of C1 for what the handler of request r returned
ReferenceEnvelope(r) ==
    LET d == req[r].ret.Data
        st == req[r].ret.StatusCode
        e == req[r].ret.Err
        w == req[r].w
    IN IF d.t = "bytes"
       THEN w.body = d.b /\ w.status = st
       ELSE IF e # NoErr \/ st # 200
       THEN LET st2 == IF st = 200 THEN 400 ELSE st
                m == IF e # NoErr THEN e ELSE StatusText(st2)
            IN /\ w.status = st2
               /\ BodyIsMap(w.body, [k \in {codeFieldName, msgFieldName} |->
                                        IF k = msgFieldName THEN VStr(m) ELSE VInt(st2)])
       ELSE /\ w.status = 200
            /\ BodyIsMap(w.body, [k \in {dataFieldName, codeFieldName} |->
                                     IF k = codeFieldName THEN VInt(0) ELSE d])

\* the envelope of request r cannot be serialized: a success envelope whose
\* payload encoding/json cannot encode
Unserializable(r) ==
    /\ req[r].ret.Data.t # "bytes"
    /\ req[r].ret.Err = NoErr /\ req[r].ret.StatusCode = 200
    /\ ~Encodable(req[r].ret.Data)

\* C1 as stated: for every handler return the written status and body are the
\* reference envelope.
C1_EnvelopeAlways == \A r \in Requests : Wrapped(r) => ReferenceEnvelope(r)

\* C1, amended: the written status and body are the reference envelope unless
\* the success envelope cannot be serialized; then the status is 500 and the
\* body is the serialization error's text.
C1_Envelope ==
    \A r \in Requests : Wrapped(r) =>
        IF Unserializable(r)
        THEN /\ req[r].w.status = 500
             /\ req[r].w.body = <<TText(UnsupportedType)>>
        ELSE ReferenceEnvelope(r)

\* an error with status 200 was answered 400, under a configured code field
C1_Witness ==
    /\ Wrapped(1)
    /\ req[1].ret.Err = "bad" /\ req[1].ret.StatusCode = 200
    /\ req[1].ret.Data.t = "chan"
    /\ req[1].w.status = 400
    /\ codeFieldName = "x"

\* C5: an OPTIONS request runs the pre-hooks, is answered 200 with an empty
\* body, and neither the handler nor WrapResponse nor any post-hook is called,
\* with cross-origin handling on or off.
C5_OptionsShortCircuit ==
    \A r \in Requests : (req[r].pc # "idle" /\ req[r].method = MethodOptions) =>
        /\ ~req[r].handlerCalled
        /\ ~req[r].wrapCalled
        /\ req[r].firedEnd = <<>>
        /\ req[r].pc \in {"begin", "done"}
        /\ req[r].pc = "done" =>
              /\ req[r].firedBegin = Ids(req[r].listBegin)
              /\ req[r].w.status = 200
              /\ req[r].w.body = <<>>

\* an OPTIONS request is done with cross-origin handling off, a pre-hook has
\* run and a post-hook was registered before the request started
C5_Witness ==
    /\ req[1].pc = "done" /\ req[1].method = MethodOptions
    /\ ~allowCrossOrigin
    /\ Len(req[1].firedBegin) > 0
    /\ Len(req[1].regEnd) > 0

\* C10 as stated: when the envelope cannot be serialized the status is 500,
\* Content-Type and Content-Length are not set, the handler's status is not
\* written and the post-hooks are not run.
C10_NoFurtherProcessing ==
    \A r \in Requests : (Wrapped(r) /\ Unserializable(r)) =>
        /\ req[r].w.status = 500
        /\ req[r].w.hdr["Content-Type"] # "application/json"
        /\ req[r].w.hdr["Content-Length"] = ""
        /\ req[r].w.status # req[r].ret.StatusCode
        /\ req[r].firedEnd = <<>>

\* C10, amended: the status is 500 and the body the error's text, WrapResponse
\* sets neither Content-Type: application/json nor Content-Length (only a
\* gzip-wrapping writer sets the Content-Type it sniffs from the error text),
\* and the post-hooks still run, each with what the handler returned.
C10_SerializationFailure ==
    \A r \in Requests : (Wrapped(r) /\ Unserializable(r)) =>
        /\ req[r].w.status = 500
        /\ req[r].w.body = <<TText(UnsupportedType)>>
        /\ req[r].w.hdr["Content-Type"] =
              IF req[r].w.isGzip THEN DetectContentType(req[r].w.body) ELSE ""
        /\ req[r].w.hdr["Content-Length"] = ""
        /\ req[r].pc = "done" =>
              /\ FiredEndIds(r) = Ids(req[r].listEnd)
              /\ \A i \in 1..Len(req[r].firedEnd) :
                    /\ req[r].firedEnd[i].Data = req[r].ret.Data
                    /\ req[r].firedEnd[i].StatusCode = 200
                    /\ req[r].firedEnd[i].Err = NoErr

\* a request whose payload holds a channel is done, answered 500 through a
\* plain writer, and a post-hook has run
C10_Witness ==
    /\ req[1].pc = "done" /\ Unserializable(1)
    /\ ~req[1].w.isGzip
    /\ req[1].w.status = 500
    /\ Len(req[1].firedEnd) > 0

\* post-hook call i of request r got exactly what the handler returned
GotHandlerValues(r, i) ==
    /\ req[r].firedEnd[i].Data = req[r].ret.Data
    /\ req[r].firedEnd[i].StatusCode = req[r].ret.StatusCode
    /\ req[r].firedEnd[i].Err = req[r].ret.Err

\* all post-hook calls of request r so far got the same Data, StatusCode, Err
SameHandleResult(r) ==
    \A i, j \in 1..Len(req[r].firedEnd) :
        /\ req[r].firedEnd[i].Data = req[r].firedEnd[j].Data
        /\ req[r].firedEnd[i].StatusCode = req[r].firedEnd[j].StatusCode
        /\ req[r].firedEnd[i].Err = req[r].firedEnd[j].Err

\* the written body is a JSON object whose message field is this text
BodyCarriesMessage(r, text) ==
    LET v == Decode(req[r].w.body)
    IN /\ v.ok /\ v.val.t = "map"
       /\ msgFieldName \in DOMAIN ObjToMap(v.val)
       /\ ObjToMap(v.val)[msgFieldName] = VStr(text)

\* the normalization of request r shows in the response: a status 200 with an
\* error is written as 400, and a status other than 200 without an error
\* puts the status text in the body as the message
NormalizedOnTheWire(r) ==
    /\ (req[r].ret.StatusCode = 200 /\ req[r].ret.Err # NoErr) =>
            req[r].w.status = 400
    /\ (req[r].ret.StatusCode # 200 /\ req[r].ret.Err = NoErr) =>
            BodyCarriesMessage(r, StatusText(req[r].ret.StatusCode))

-----------------------------------------------------------------------------
(* Claims about the hooks, under SpecConc                                   *)

Iterating(r, begin) ==
    /\ req[r].pc = IF begin THEN "begin" ELSE "end"
    /\ req[r].idx <= Len(req[r].snap)

\* C6: while a goroutine is appending to a hook list no other goroutine is
\* appending to that list or iterating over it.
C6_RegistrationExclusive ==
    \A g \in Adders : adder[g].pc = "append" =>
        LET begin == IsBeginKind(adder[g].hook.kind)
        IN /\ \A h \in Adders \ {g} :
                 ~(adder[h].pc = "append" /\ IsBeginKind(adder[h].hook.kind) = begin)
           /\ \A r \in Requests : ~Iterating(r, begin)

-----------------------------------------------------------------------------
(* Claims about GZipHandler, under SpecGzip                                 *)

\* decompression of a body: the header is read, then the stream
Gunzip(data) ==
    IF ~NewReader(data).ok THEN [ok |-> FALSE, data |-> <<>>]
    ELSE ReadAllGzip(data)

\* C7: with Content-Encoding: gzip the inner handler observes the decompressed
\* bytes when decompression succeeds, and the bytes that were received when it
\* fails, at the header or while the stream is read.
C7_InboundBody ==
    (gz.hasRead /\ ContainsGzip(gz.contentEncoding) /\ ~gz.bodyFails) =>
        gz.observed = IF Gunzip(gz.raw).ok THEN Gunzip(gz.raw).data ELSE gz.raw

\* C8: without gzip in Accept-Encoding the inner handler has the original
\* writer and no Content-Encoding is set; with it the response carries
\* Content-Encoding: gzip, every write goes through the compressor, the
\* compressor is closed once the inner handler has returned, and the response
\* body decompresses to exactly what was written.
C8_OutboundBody ==
    IF ~ContainsGzip(gz.acceptEncoding)
    THEN /\ ~gz.gzipWriter
         /\ gz.respContentEncoding = ""
         /\ gz.compressor = "none"
         /\ gz.wire = gz.written
    ELSE /\ gz.pc = "next" =>
              /\ gz.gzipWriter /\ gz.respContentEncoding = "gzip"
              /\ gz.compressor = "open"
              /\ gz.buffered = gz.written
         /\ gz.pc = "done" =>
              /\ gz.respContentEncoding = "gzip"
              /\ gz.compressor = "closed"
              /\ Gunzip(gz.wire).ok
              /\ Gunzip(gz.wire).data = gz.written

\* two writes went through the compressor and the handler has returned
C8_Witness ==
    /\ gz.pc = "done"
    /\ ContainsGzip(gz.acceptEncoding)
    /\ gz.nWrites = 2 /\ gz.written = <<0, 1, MaxByte>>
    /\ gz.wire # gz.written

-----------------------------------------------------------------------------
(* Claims about ParseBodyParam, under SpecParam                             *)

\* C9: after ParseBodyParam has read a body X without a read error, a full
\* read of r.Body observes exactly X, whether X decoded or not; a read error
\* is returned without decoding.
C9_BodyRestored ==
    /\ pb.pc \in {"returned", "done"} =>
          /\ pb.ret = "read error" <=> pb.fails
          /\ pb.fails => ~pb.decoded /\ pb.param = VNil
          /\ ~pb.fails => pb.decoded /\ pb.ret \in {"nil", "decode error"}
    /\ (pb.pc = "done" /\ ~pb.fails) => pb.second = pb.sent /\ ~pb.secondErr

\* a body that does not decode was read again in full
C9_Witness ==
    /\ pb.pc = "done"
    /\ pb.ret = "decode error"
    /\ Len(pb.sent) = MaxBodyLen
    /\ pb.second = pb.sent

=============================================================================
